---- MODULE Spec2Model ----
(***************************************************************************)
(* Session / device-state synchronisation of the LetsParky API demo.       *)
(*                                                                         *)
(*   src/src/services/api.ts   tokens, login, refreshTokens,               *)
(*                             fetchUserDevices, updateDeviceStatus, App   *)
(*   src/unnamed/part_000      DeviceList (pollDeviceStatus,               *)
(*                             handleUpdateStatus), LoginCredentials       *)
(*                                                                         *)
(* One step of the model is one run of the JavaScript event loop: the      *)
(* delivery of a network response, a timer or a button press, followed by  *)
(* all the code that runs until every continuation is suspended on the     *)
(* next network request or timer.  The remote server is not part of the    *)
(* repository: every request may be answered with success or with any      *)
(* failure.  The texts the components display (Status, statusMessage) are  *)
(* not part of the state: the messages a task gives to onStatusUpdate are   *)
(* counted in the task.                                                    *)
(***************************************************************************)
EXTENDS Integers, FiniteSets, Sequences, TLC

\* ------------------------------------------------------------------ bounds
\* Number of distinct token generations that can be told apart at a time.
MaxTok == 3
\* Number of App.refreshDevices invocations that can be in flight at a time.
MaxFetch == 1
\* Number of handleUpdateStatus invocations that can be running at a time.
MaxTasks == 2
\* Number of handler invocations (login, token refresh, refreshDevices,
\* handleUpdateStatus) that can be running at a time.
MaxRunning == 2

\* ------------------------------------------------------- program constants
\* pollDeviceStatus: const maxAttempts = 10
maxAttempts == 10

Devices == {"d1"}
Statuses == {"BLOCKED", "UNBLOCKED", "OTHER"}
Absent == "absent"

\* ------------------------------------------------------------------ tokens
\* A token string.  k = "A": an access token issued by the server, "R": a
\* refresh token issued by the server, "empty": the string '', "undef":
\* undefined (a missing field).
TokIds == 1..MaxTok
Undef == [k |-> "undef", n |-> 0]
Empty == [k |-> "empty", n |-> 0]
Acc(n) == [k |-> "A", n |-> n]
Ref(n) == [k |-> "R", n |-> n]
Tok == {Undef, Empty} \cup {Acc(n) : n \in TokIds} \cup {Ref(n) : n \in TokIds}

\* JavaScript truthiness of a token string.
Truthy(t) == t.k \in {"A", "R"}

\* The module-level `tokens` object: null, or an object whose two fields may
\* each be missing.
NullTokens == [null |-> TRUE, a |-> Undef, r |-> Undef]
Pair(n) == [null |-> FALSE, a |-> Acc(n), r |-> Ref(n)]
OnlyAccess(t) == [null |-> FALSE, a |-> t, r |-> Undef]

\* Responses of the server.
Failures == {"401", "err"}
Kinds == {"ok"} \cup Failures

\* ------------------------------------------------------------ Auth Client
\* Mutants of LoginDone: the refresh token of the payload is not stored; a
\* failure leaves an empty object instead of null.
LoginDone_NoRefreshToken(kind, n) ==
    IF kind = "ok"
    THEN [tk |-> OnlyAccess(Acc(n)), res |-> "ok",
          ret |-> [userId |-> TRUE, accessToken |-> Acc(n)]]
    ELSE [tk |-> NullTokens, res |-> "err", ret |-> [userId |-> FALSE, accessToken |-> Undef]]
LoginDone_EmptyObject(kind, n) ==
    IF kind = "ok"
    THEN [tk |-> Pair(n), res |-> "ok", ret |-> [userId |-> TRUE, accessToken |-> Acc(n)]]
    ELSE [tk |-> OnlyAccess(Undef), res |-> "err",
          ret |-> [userId |-> FALSE, accessToken |-> Undef]]

\* login, from the arrival of the response of POST /auth/credentials.
\* kind: the server's answer; n: the generation of the pair in the payload.
\* tk is the new value of `tokens`; ret the returned LoginResponse (its
\* accessToken; userId tells whether it is the userId of the payload);
\* res = "err": an error is thrown.
LoginDone(kind, n) ==
    IF kind = "ok"
    THEN [tk |-> Pair(n), res |-> "ok", ret |-> [userId |-> TRUE, accessToken |-> Acc(n)]]
    ELSE [tk |-> NullTokens, res |-> "err", ret |-> [userId |-> FALSE, accessToken |-> Undef]]

\* Mutant of RefreshDone: the refresh token of the payload is returned but
\* not stored.
RefreshDone_NoRefreshToken(kind, n) ==
    IF kind = "ok"
    THEN [tk |-> OnlyAccess(Acc(n)), res |-> "ok", ret |-> Pair(n)]
    ELSE [tk |-> NullTokens, res |-> "err", ret |-> NullTokens]

\* refreshTokens, from the arrival of the response of POST /auth/refresh.
RefreshDone(kind, n) ==
    IF kind = "ok"
    THEN [tk |-> Pair(n), res |-> "ok", ret |-> Pair(n)]
    ELSE [tk |-> NullTokens, res |-> "err", ret |-> NullTokens]

\* ---------------------------------------------------------- Device Client
\* One invocation of fetchUserDevices.
\*   pc       the request it is suspended on: "get1", "refresh", "get2",
\*            or "idle" when it has returned or thrown
\*   bearer   the bearer credential of the request in flight
\*   arg      the accessToken argument of the call (kept until the first GET
\*            is answered; the code does not read it afterwards)
\*   res      "ok": returned the payload, "err": threw, "none": running
\* and, for the record, about the invocation:
\*   nGet, nRefresh   requests issued so far
\*   hadR     the store held a refresh token when the call was made
\*   g1       the answer to the first GET
\*   newTok   the retried GET bears the access token the refresh returned
\*   endNull  `tokens` was null when the call threw
NoCall ==
    [pc |-> "idle", bearer |-> Undef, arg |-> Undef, res |-> "none",
     nGet |-> 0, nRefresh |-> 0, hadR |-> FALSE, g1 |-> "none",
     newTok |-> FALSE, endNull |-> FALSE]

\* The call returns or throws: what is left of the call once it is over.
CallOver(c, res, tk) ==
    [NoCall EXCEPT !.res = res, !.nGet = c.nGet, !.nRefresh = c.nRefresh,
                   !.g1 = c.g1, !.endNull = (res = "err" /\ tk.null)]

\* fetchUserDevices up to its first await: line 115 replaces `tokens` by an
\* object holding the access token alone, then the GET is sent bearing
\* tokens.accessToken.
FetchStart(arg, tk) ==
    [c |-> [NoCall EXCEPT !.pc = "get1", !.bearer = OnlyAccess(arg).a, !.arg = arg,
                          !.nGet = 1, !.hadR = (~tk.null /\ Truthy(tk.r))],
     tk |-> OnlyAccess(arg), res |-> "none"]

\* The first GET is answered: the payload is returned; or, on a 401 with a
\* refresh token in `tokens`, refreshTokens is called; or the error is
\* rethrown and the outer catch sets `tokens` to null.
FetchOnGet1(c, tk, kind) ==
    LET c1 == [c EXCEPT !.g1 = kind] IN
    IF kind = "ok"
    THEN [c |-> c1, tk |-> tk, res |-> "ok"]
    ELSE IF kind = "401" /\ ~tk.null /\ Truthy(tk.r)
    THEN [c |-> [c1 EXCEPT !.pc = "refresh", !.bearer = tk.r, !.arg = Undef,
                           !.nRefresh = @ + 1],
          tk |-> tk, res |-> "none"]
    ELSE [c |-> c1, tk |-> NullTokens, res |-> "err"]

\* The refresh requested by fetchUserDevices is answered: the GET is sent
\* again bearing newTokens.accessToken, or the error of refreshTokens reaches
\* the outer catch.
FetchOnRefresh(c, tk, kind, n) ==
    LET r == RefreshDone(kind, n) IN
    IF r.res = "ok"
    THEN [c |-> [c EXCEPT !.pc = "get2", !.bearer = r.ret.a, !.nGet = @ + 1,
                          !.newTok = (r.ret.a = Acc(n))],
          tk |-> r.tk, res |-> "none"]
    ELSE [c |-> c, tk |-> NullTokens, res |-> "err"]

\* Mutant of FetchOnGet2: a 401 on the retried GET is handled like a 401 on
\* the first one.
FetchOnGet2_RefreshAgain(c, tk, kind) ==
    IF kind = "ok"
    THEN [c |-> c, tk |-> tk, res |-> "ok"]
    ELSE IF kind = "401" /\ ~tk.null /\ Truthy(tk.r)
    THEN [c |-> [c EXCEPT !.pc = "refresh", !.bearer = tk.r, !.nRefresh = @ + 1],
          tk |-> tk, res |-> "none"]
    ELSE [c |-> c, tk |-> NullTokens, res |-> "err"]

\* The retried GET is answered.
FetchOnGet2(c, tk, kind) ==
    IF kind = "ok"
    THEN [c |-> c, tk |-> tk, res |-> "ok"]
    ELSE [c |-> c, tk |-> NullTokens, res |-> "err"]

\* fetchUserDevices resumed by the answer to the request it is suspended on.
FetchStep(c, tk, kind, n) ==
    LET s == CASE c.pc = "get1" -> FetchOnGet1(c, tk, kind)
               [] c.pc = "refresh" -> FetchOnRefresh(c, tk, kind, n)
               [] c.pc = "get2" -> FetchOnGet2(c, tk, kind)
    IN  IF s.res = "none" THEN s ELSE [s EXCEPT !.c = CallOver(s.c, s.res, s.tk)]

\* One invocation of updateDeviceStatus.
\*   pc       "login", "put1", "refresh", "put2", or "idle" when it is over
\*   dir      the endpoint of the PUT: "block" or "unblock"
\*   bearer   the bearer credential of the request in flight
\*   cred     the credentials argument
\*   res      "ok": returned, "err": threw, "none": running
\* and, for the record: nLogin, nPut, nRefresh requests issued so far; p1
\* the answer to the first PUT; hadR: `tokens` held a refresh token when the
\* first PUT was answered; newTok: the retried PUT bears the access token the
\* refresh returned; endNull: `tokens` was null when the call threw.
NoUpdate ==
    [pc |-> "idle", dir |-> "none", bearer |-> Undef, cred |-> "none", res |-> "none",
     nLogin |-> 0, nPut |-> 0, nRefresh |-> 0, p1 |-> "none", hadR |-> FALSE,
     newTok |-> FALSE, endNull |-> FALSE]

UpdateOver(u, res, tk) ==
    [NoUpdate EXCEPT !.dir = u.dir, !.cred = u.cred, !.res = res,
                     !.nLogin = u.nLogin, !.nPut = u.nPut, !.nRefresh = u.nRefresh,
                     !.p1 = u.p1, !.hadR = u.hadR,
                     !.endNull = (res = "err" /\ tk.null)]

\* Of a call of updateDeviceStatus that returned, the caller's task keeps the
\* endpoint and the outcome alone.
UpdateReturned(u) == [NoUpdate EXCEPT !.dir = u.dir, !.res = "ok"]

\* Mutant of Endpoint: the status is not looked at.
Endpoint_AlwaysBlock(currentStatus) == "block"

\* Mutant of Endpoint: the test is made on the other status, so that a
\* status that is neither BLOCKED nor UNBLOCKED goes to the unblock endpoint.
Endpoint_UnlessUnblocked(currentStatus) ==
    IF currentStatus = "UNBLOCKED" THEN "block" ELSE "unblock"

\* The endpoint chosen from currentStatus (lines 158-159).
Endpoint(currentStatus) == IF currentStatus = "BLOCKED" THEN "unblock" ELSE "block"

\* Mutant of UpdateStart: the PUT is sent without looking at `tokens`.
UpdateStart_NoLogin(currentStatus, cred, tk) ==
    LET u0 == [NoUpdate EXCEPT !.dir = Endpoint(currentStatus), !.cred = cred] IN
    [u |-> [u0 EXCEPT !.pc = "put1", !.bearer = tk.a, !.nPut = 1],
     tk |-> tk, res |-> "none"]

\* updateDeviceStatus up to its first await: login(credentials) when `tokens`
\* is null, otherwise the PUT bearing tokens.accessToken.
UpdateStart(currentStatus, cred, tk) ==
    LET u0 == [NoUpdate EXCEPT !.dir = Endpoint(currentStatus), !.cred = cred] IN
    IF tk.null
    THEN [u |-> [u0 EXCEPT !.pc = "login", !.nLogin = 1], tk |-> tk, res |-> "none"]
    ELSE [u |-> [u0 EXCEPT !.pc = "put1", !.bearer = tk.a, !.nPut = 1],
          tk |-> tk, res |-> "none"]

\* The login made by updateDeviceStatus is answered.
UpdateOnLogin(u, tk, kind, n) ==
    LET l == LoginDone(kind, n) IN
    IF l.res = "ok"
    THEN [u |-> [u EXCEPT !.pc = "put1", !.bearer = l.tk.a, !.nPut = 1],
          tk |-> l.tk, res |-> "none"]
    ELSE [u |-> u, tk |-> NullTokens, res |-> "err"]

\* The first PUT is answered.
UpdateOnPut1(u, tk, kind) ==
    LET u1 == [u EXCEPT !.p1 = kind, !.hadR = (~tk.null /\ Truthy(tk.r))] IN
    IF kind = "ok"
    THEN [u |-> u1, tk |-> tk, res |-> "ok"]
    ELSE IF kind = "401" /\ ~tk.null /\ Truthy(tk.r)
    THEN [u |-> [u1 EXCEPT !.pc = "refresh", !.bearer = tk.r, !.nRefresh = @ + 1],
          tk |-> tk, res |-> "none"]
    ELSE [u |-> u1, tk |-> NullTokens, res |-> "err"]

\* Mutant of UpdateOnRefresh: the retried PUT bears the access token read
\* before the refresh.
UpdateOnRefresh_StaleBearer(u, tk, kind, n) ==
    LET r == RefreshDone(kind, n) IN
    IF r.res = "ok"
    THEN [u |-> [u EXCEPT !.pc = "put2", !.bearer = tk.a, !.nPut = @ + 1,
                          !.newTok = (tk.a = Acc(n))],
          tk |-> r.tk, res |-> "none"]
    ELSE [u |-> u, tk |-> NullTokens, res |-> "err"]

\* The refresh requested by updateDeviceStatus is answered: the PUT is sent
\* again bearing tokens.accessToken as refreshTokens left it.
UpdateOnRefresh(u, tk, kind, n) ==
    LET r == RefreshDone(kind, n) IN
    IF r.res = "ok"
    THEN [u |-> [u EXCEPT !.pc = "put2", !.bearer = r.tk.a, !.nPut = @ + 1,
                          !.newTok = (r.tk.a = Acc(n))],
          tk |-> r.tk, res |-> "none"]
    ELSE [u |-> u, tk |-> NullTokens, res |-> "err"]

\* The retried PUT is answered.
UpdateOnPut2(u, tk, kind) ==
    IF kind = "ok"
    THEN [u |-> u, tk |-> tk, res |-> "ok"]
    ELSE [u |-> u, tk |-> NullTokens, res |-> "err"]

\* updateDeviceStatus resumed by the answer to the request it is suspended on.
UpdateStep(u, tk, kind, n) ==
    LET s == CASE u.pc = "login" -> UpdateOnLogin(u, tk, kind, n)
               [] u.pc = "put1" -> UpdateOnPut1(u, tk, kind)
               [] u.pc = "refresh" -> UpdateOnRefresh(u, tk, kind, n)
               [] u.pc = "put2" -> UpdateOnPut2(u, tk, kind)
    IN  IF s.res = "none" THEN s ELSE [s EXCEPT !.u = UpdateOver(s.u, s.res, s.tk)]

\* ------------------------------------------------------------------- state
VARIABLES
    tokens,              \* api.ts: the module-level `tokens`
    currentAccessToken,  \* App: useState('')
    devices,             \* App: the device list, as device id -> status
    isLoading,           \* App: a refreshDevices is running
    error,               \* App: the last refreshDevices failed
    fetchers,            \* the invocations of App.refreshDevices in flight
    loadingDevices,      \* DeviceList: the per-device busy flag
    tasks,               \* the invocations of handleUpdateStatus
    lc,                  \* LoginCredentials: its state and its requests
    lastLogin,           \* what every login() that completed so far did
    lastRefresh,         \* what every refreshTokens() that completed so far did
    rejection,           \* LoginCredentials: the error the login request in
                         \* flight is about to be rejected with
    Status               \* LoginCredentials: the status text

vars == <<tokens, currentAccessToken, devices, isLoading, error,
          fetchers, loadingDevices, tasks, lc, lastLogin, lastRefresh,
          rejection, Status>>

\* No login request is about to be rejected.
NoRejection ==
    [response |-> FALSE, status |-> 0, cause |-> "none", hasData |-> FALSE,
     data |-> {}, message |-> {}]

\* The status text is shown and never read, and it does not depend on the
\* rest of the state: Spec and ToggleSpec leave it and the rejection aside;
\* ClassifySpec follows them.
display == <<rejection, Status>>

Fetchers == 1..MaxFetch
Tasks == 1..MaxTasks
Payloads == [Devices -> Statuses \cup {Absent}]
NoPayload == [d \in Devices |-> Absent]
\* The payloads an answer of the given kind can carry.
PayloadsOf(kind) == IF kind = "ok" THEN Payloads ELSE {NoPayload}

\* One invocation of handleUpdateStatus and of the pollDeviceStatus it starts.
\*   phase    "idle" (over, or never started), "update" (awaiting
\*            updateDeviceStatus), "poll" (awaiting fetchUserDevices in the
\*            loop), "sleep" (awaiting the poll interval)
\*   d, exp   deviceId and expectedStatus
\*   capTok   currentAccessToken of the render whose onRefresh it calls
\*   u, c     the updateDeviceStatus / fetchUserDevices call it is awaiting
\*   attempts the loop's counter
\* and, for the record: polls (fetchUserDevices calls made by the loop),
\* nSuccess, nTimeout, nFailed (messages given to onStatusUpdate), out
\* ("confirmed", "timedout", "failed"), matched (the last poll returned a
\* list reporting the expected status for the device), fx (what the task did
\* when it ended, in the order of the calls: a message to onStatusUpdate
\* "success", "timeout" or "failed"; "busy", the busy flag cleared;
\* "refresh", onRefresh called).
NoTask ==
    [phase |-> "idle", d |-> "none", exp |-> "none", capTok |-> Undef,
     u |-> NoUpdate, c |-> NoCall, attempts |-> 0, polls |-> 0,
     nSuccess |-> 0, nTimeout |-> 0, nFailed |-> 0,
     out |-> "none", matched |-> FALSE, fx |-> <<>>]

Active(t) == tasks[t].phase # "idle"

Init ==
    /\ tokens = NullTokens
    /\ currentAccessToken = Empty
    /\ devices = [d \in Devices |-> Absent]
    /\ isLoading = FALSE
    /\ error = FALSE
    /\ fetchers = [i \in Fetchers |-> NoCall]
    /\ loadingDevices = [d \in Devices |-> FALSE]
    /\ tasks = [t \in Tasks |-> NoTask]
    /\ lc = [isLoading |-> FALSE, isRefreshing |-> FALSE, tok |-> Undef,
             bearer |-> Undef]
    /\ lastLogin = [stored |-> TRUE, ret |-> TRUE, cleared |-> TRUE]
    /\ lastRefresh = [stored |-> TRUE, ret |-> TRUE, cleared |-> TRUE]
    /\ rejection = NoRejection
    /\ Status = ""

\* The token generations some part of the client still refers to, and the
\* generation of the next pair the server issues: tokens are opaque, so a
\* generation nobody refers to any more is as good as a new one.
IdsOf(S) == {t.n : t \in {x \in S : Truthy(x)}}
Used ==
    IdsOf({tokens.a, tokens.r, currentAccessToken, lc.tok, lc.bearer})
      \cup IdsOf({fetchers[i].bearer : i \in Fetchers} \cup {fetchers[i].arg : i \in Fetchers})
      \cup IdsOf({tasks[t].capTok : t \in Tasks} \cup {tasks[t].u.bearer : t \in Tasks})
      \cup IdsOf({tasks[t].c.bearer : t \in Tasks} \cup {tasks[t].c.arg : t \in Tasks})
CanIssue == TokIds \ Used # {}
Fresh == CHOOSE n \in TokIds \ Used : \A m \in TokIds \ Used : n <= m
\* The answers the server can give to a request for a new pair.
IssueKinds == IF CanIssue THEN Kinds ELSE Failures

\* The handler invocations that are suspended on a request or a timer.
Running ==
    Cardinality({i \in Fetchers : fetchers[i].pc # "idle"})
      + Cardinality({t \in Tasks : Active(t)})
      + (IF lc.isLoading THEN 1 ELSE 0) + (IF lc.isRefreshing THEN 1 ELSE 0)
\* A press or a pull starts one more invocation.
CanStart == Running < MaxRunning

FreeFetcher == \E i \in Fetchers : fetchers[i].pc = "idle"
TheFetcher == CHOOSE i \in Fetchers : fetchers[i].pc = "idle"
FreeTask == \E t \in Tasks : ~Active(t)
TheTask == CHOOSE t \in Tasks : ~Active(t) /\ \A s \in Tasks : ~Active(s) => t <= s

N == IF CanIssue THEN Fresh ELSE 0

\* What a refreshTokens() did whose request was answered with `kind`, the
\* payload of a success being of generation n:
\*   stored   on success, `tokens` holds the pair of the payload
\*   ret      on success, the pair returned is the pair now in `tokens`
\*   cleared  on failure, `tokens` is null and an error is thrown
RefreshRecord(kind, r, n) ==
    [stored |-> (kind = "ok" => r.res = "ok" /\ r.tk = Pair(n)),
     ret |-> (kind = "ok" => ~r.tk.null /\ r.ret.a = r.tk.a /\ r.ret.r = r.tk.r),
     cleared |-> (kind # "ok" => r.res = "err" /\ r.tk.null)]

\* lastRefresh holds of every refreshTokens so far what RefreshRecord holds
\* of one.
AlsoRefresh(kind, n) ==
    LET r == RefreshRecord(kind, RefreshDone(kind, n), n) IN
    [stored |-> lastRefresh.stored /\ r.stored,
     ret |-> lastRefresh.ret /\ r.ret,
     cleared |-> lastRefresh.cleared /\ r.cleared]

\* ---------------------------------------------------------------------- App
\* refreshDevices up to its first await: setIsLoading(true), setError(null)
\* and the call of fetchUserDevices.  The record holds the new values.
RefreshDevicesStart(accessToken, tk) ==
    LET s == FetchStart(accessToken, tk) IN
    [tk |-> s.tk, isLoading |-> TRUE, error |-> FALSE,
     fetchers |-> [fetchers EXCEPT ![TheFetcher] = s.c]]

\* handleLoginSuccess: setCurrentAccessToken, then refreshDevices(accessToken).
HandleLoginSuccess(accessToken, tk) ==
    /\ FreeFetcher
    /\ LET r == RefreshDevicesStart(accessToken, tk) IN
        /\ currentAccessToken' = accessToken
        /\ tokens' = r.tk
        /\ isLoading' = r.isLoading
        /\ error' = r.error
        /\ fetchers' = r.fetchers

\* DeviceList renders the list (and its buttons) only when logged in, not
\* loading and without error.
isLoggedIn == Truthy(currentAccessToken)
ListVisible == isLoggedIn /\ ~isLoading /\ ~error

\* The FlatList's onRefresh: refreshDevices() with the default argument.
PullToRefresh ==
    /\ CanStart
    /\ ListVisible
    /\ FreeFetcher
    /\ LET r == RefreshDevicesStart(currentAccessToken, tokens) IN
        /\ tokens' = r.tk
        /\ isLoading' = r.isLoading
        /\ error' = r.error
        /\ fetchers' = r.fetchers
    /\ UNCHANGED <<currentAccessToken, devices, loadingDevices, tasks,
                   lc, lastLogin>>
    /\ UNCHANGED <<lastRefresh, rejection, Status>>

\* A request of a refreshDevices in flight is answered; when fetchUserDevices
\* is over: setDevices or setError, then setIsLoading(false).
RefreshDevicesResponse(i, kind, payload) ==
    /\ fetchers[i].pc # "idle"
    /\ kind \in (IF fetchers[i].pc = "refresh" THEN IssueKinds ELSE Kinds)
    /\ LET s == FetchStep(fetchers[i], tokens, kind, N) IN
        /\ tokens' = s.tk
        /\ fetchers' = [fetchers EXCEPT ![i] = s.c]
        /\ devices' = IF s.res = "ok" THEN payload ELSE devices
        /\ error' = IF s.res = "err" THEN TRUE ELSE error
        /\ isLoading' = IF s.res = "none" THEN isLoading ELSE FALSE
    /\ UNCHANGED <<currentAccessToken, loadingDevices, tasks, lc, lastLogin>>
    /\ lastRefresh' = IF fetchers[i].pc = "refresh"
                      THEN AlsoRefresh(kind, N) ELSE lastRefresh
    /\ UNCHANGED display

\* --------------------------------------------------------- LoginCredentials
\* What the user typed: an email and a password, nothing, or an email
\* without '@'.
Credentials == {"typed", "empty", "noat"}

\* The two validations of handleLogin; a rejected input returns before any
\* request is made.
Validates(cred) == cred # "empty" /\ cred # "noat"

\* handleLogin up to its first await: the validations, then the call of
\* login.
HandleLogin(cred) ==
    /\ CanStart
    /\ ~lc.isLoading
    /\ Validates(cred)
    /\ lc' = [lc EXCEPT !.isLoading = TRUE]
    /\ UNCHANGED <<tokens, currentAccessToken, devices, isLoading, error,
                   fetchers, loadingDevices, tasks, lastLogin>>
    /\ UNCHANGED <<lastRefresh, rejection, Status>>

\* What a login() did whose request was answered with `kind`, the payload
\* of a success being of generation n:
\*   stored   on success, `tokens` holds the pair of the payload
\*   ret      on success, the value returned carries the userId of the
\*            payload and the access token now in `tokens`
\*   cleared  on failure, `tokens` is null and an error is thrown
LoginRecord(kind, l, n) ==
    [stored |-> (kind = "ok" => l.res = "ok" /\ l.tk = Pair(n)),
     ret |-> (kind = "ok" => l.ret.userId /\ ~l.tk.null /\ l.ret.accessToken = l.tk.a),
     cleared |-> (kind # "ok" => l.res = "err" /\ l.tk.null)]

\* lastLogin holds of every login so far what LoginRecord holds of one.
AlsoLogin(kind, n) ==
    LET r == LoginRecord(kind, LoginDone(kind, n), n) IN
    [stored |-> lastLogin.stored /\ r.stored,
     ret |-> lastLogin.ret /\ r.ret,
     cleared |-> lastLogin.cleared /\ r.cleared]

\* The login of handleLogin is answered.
LoginResponse(kind) ==
    /\ lc.isLoading
    /\ kind \in IssueKinds
    /\ LET l == LoginDone(kind, N) IN
        /\ lastLogin' = AlsoLogin(kind, N)
        /\ IF l.res = "ok"
           THEN /\ lc' = [lc EXCEPT !.isLoading = FALSE, !.tok = l.ret.accessToken]
                /\ HandleLoginSuccess(l.ret.accessToken, l.tk)
           ELSE /\ lc' = [lc EXCEPT !.isLoading = FALSE]
                /\ tokens' = l.tk
                /\ UNCHANGED <<currentAccessToken, isLoading, error, fetchers>>
    /\ UNCHANGED <<devices, loadingDevices, tasks>>
    /\ UNCHANGED <<lastRefresh, rejection, Status>>

\* handleRefreshToken up to its first await.  The button is rendered only
\* when the component's tokens.accessToken is set, and that is the string
\* given to refreshTokens.
HandleRefreshToken ==
    /\ CanStart
    /\ Truthy(lc.tok)
    /\ ~lc.isRefreshing /\ ~lc.isLoading
    /\ lc' = [lc EXCEPT !.isRefreshing = TRUE, !.bearer = lc.tok]
    /\ UNCHANGED <<tokens, currentAccessToken, devices, isLoading, error,
                   fetchers, loadingDevices, tasks, lastLogin>>
    /\ UNCHANGED <<lastRefresh, rejection, Status>>

\* The refresh of handleRefreshToken is answered.
RefreshResponse(kind) ==
    /\ lc.isRefreshing
    /\ kind \in IssueKinds
    /\ LET r == RefreshDone(kind, N) IN
        IF r.res = "ok"
        THEN /\ lc' = [lc EXCEPT !.isRefreshing = FALSE, !.bearer = Undef, !.tok = r.ret.a]
             /\ HandleLoginSuccess(r.ret.a, r.tk)
        ELSE /\ lc' = [lc EXCEPT !.isRefreshing = FALSE, !.bearer = Undef]
             /\ tokens' = r.tk
             /\ UNCHANGED <<currentAccessToken, isLoading, error, fetchers>>
    /\ UNCHANGED <<devices, loadingDevices, tasks, lastLogin>>
    /\ lastRefresh' = AlsoRefresh(kind, N)
    /\ UNCHANGED display

\* --------------------------------------------------------------- DeviceList
\* Mutant of CanPress: the button is never disabled.
CanPress_Always(d) == TRUE

\* The toggle button of a device is disabled while its busy flag is set.
CanPress(d) == ~loadingDevices[d]

\* expectedStatus of handleUpdateStatus.
Expected(currentStatus) == IF currentStatus = "BLOCKED" THEN "UNBLOCKED" ELSE "BLOCKED"

\* The argument pollDeviceStatus gives fetchUserDevices: tokens?.accessToken || ''.
PollArg(tk) == IF ~tk.null /\ Truthy(tk.a) THEN tk.a ELSE Empty

\* Mutant of PollMatches: the test is inverted.
PollMatches_Inverted(payload, d, exp) == payload[d] # Absent /\ payload[d] # exp

\* The test of pollDeviceStatus on the list a poll returned: the status of
\* the entry found for the device (none when absent) against expectedStatus.
PollMatches(payload, d, exp) == payload[d] # Absent /\ payload[d] = exp

\* Mutant of LoopContinues: one iteration too many.
LoopContinues_OffByOne(attempts) == attempts <= maxAttempts

\* The loop condition of pollDeviceStatus.
LoopContinues(attempts) == attempts < maxAttempts

\* One more iteration of the loop of pollDeviceStatus: the call of
\* fetchUserDevices.
PollIterate(task, tk) ==
    LET f == FetchStart(PollArg(tk), tk) IN
    [task |-> [task EXCEPT !.phase = "poll", !.c = f.c, !.polls = @ + 1,
                           !.matched = FALSE],
     tk |-> f.tk]

\* The task is over: the invocation keeps no token.
TaskOver(task, out) == [task EXCEPT !.phase = "idle", !.out = out, !.capTok = Undef]

\* Mutant of UpdateFailed: the catch clears the busy flag and gives no
\* message.
UpdateFailed_Silent(task) == TaskOver([task EXCEPT !.fx = <<"busy">>], "failed")

\* The catch of handleUpdateStatus: the failure message, then the busy flag
\* cleared.
UpdateFailed(task) ==
    TaskOver([task EXCEPT !.nFailed = @ + 1, !.fx = <<"failed", "busy">>], "failed")

\* Mutant of PollOnMatch: the list is refreshed before the message is given
\* and the busy flag cleared.
PollOnMatch_RefreshFirst(task) ==
    TaskOver([task EXCEPT !.nSuccess = @ + 1, !.fx = <<"refresh", "success", "busy">>],
             "confirmed")

\* A poll returned a list reporting the expected status: the success message,
\* the busy flag cleared, onRefresh() and the return.
PollOnMatch(task) ==
    TaskOver([task EXCEPT !.nSuccess = @ + 1, !.fx = <<"success", "busy", "refresh">>],
             "confirmed")

\* The loop is left after maxAttempts: the timeout message, then the busy
\* flag cleared.
PollOnTimeout(task) ==
    TaskOver([task EXCEPT !.nTimeout = @ + 1, !.fx = <<"timeout", "busy">>], "timedout")

\* Mutant of PollOnError: the error is not caught; it ends pollDeviceStatus
\* as an unhandled rejection.
PollOnError_Uncaught(task) == TaskOver(task, "none")

\* Mutant of PollOnError: the error ends the loop with the failure message.
PollOnError_Abort(task) == UpdateFailed(task)

\* The poll threw: the catch logs the error, then attempts++ and the poll
\* interval.
PollOnError(task) == [task EXCEPT !.phase = "sleep", !.attempts = @ + 1]

\* The poll returned a list that does not report the expected status:
\* attempts++ and the poll interval.
PollOnMismatch(task) == [task EXCEPT !.phase = "sleep", !.attempts = @ + 1]

\* Of a call of fetchUserDevices made by the loop, once it is over, the task
\* keeps the outcome alone.
PollCallOver(c) ==
    [NoCall EXCEPT !.res = c.res, !.endNull = c.endNull]


\* A press on the toggle button of device d: handleUpdateStatus up to the
\* first await of updateDeviceStatus.
HandleUpdateStatus(d) ==
    /\ CanStart
    /\ ListVisible
    /\ devices[d] # Absent
    /\ CanPress(d)
    /\ FreeTask
    /\ LET s == UpdateStart(devices[d], "blank", tokens) IN
        /\ tokens' = s.tk
        /\ tasks' = [tasks EXCEPT ![TheTask] =
                        [NoTask EXCEPT !.phase = "update", !.d = d,
                                       !.exp = Expected(devices[d]),
                                       !.capTok = currentAccessToken, !.u = s.u]]
    /\ loadingDevices' = [loadingDevices EXCEPT ![d] = TRUE]
    /\ UNCHANGED <<currentAccessToken, devices, isLoading, error,
                   fetchers, lc, lastLogin>>
    /\ UNCHANGED <<lastRefresh, rejection, Status>>

\* A request of the updateDeviceStatus a task awaits is answered.  When the
\* call returns, pollDeviceStatus starts with its first poll; when it throws,
\* the failure message is given and the busy flag cleared.
UpdateResponse(t, kind) ==
    /\ tasks[t].phase = "update"
    /\ kind \in (IF tasks[t].u.pc \in {"login", "refresh"} THEN IssueKinds ELSE Kinds)
    /\ LET task == tasks[t]
           s == UpdateStep(task.u, tokens, kind, N)
           task1 == [task EXCEPT !.u = s.u]
       IN
        /\ lastLogin' = IF task.u.pc = "login"
                        THEN AlsoLogin(kind, N) ELSE lastLogin
        /\ CASE s.res = "none" ->
                  /\ tasks' = [tasks EXCEPT ![t] = task1]
                  /\ tokens' = s.tk
                  /\ UNCHANGED loadingDevices
             [] s.res = "ok" ->
                  LET p == PollIterate([task1 EXCEPT !.u = UpdateReturned(s.u)], s.tk) IN
                  /\ tasks' = [tasks EXCEPT ![t] = p.task]
                  /\ tokens' = p.tk
                  /\ UNCHANGED loadingDevices
             [] s.res = "err" ->
                  /\ tasks' = [tasks EXCEPT ![t] = UpdateFailed(task1)]
                  /\ tokens' = s.tk
                  /\ loadingDevices' = [loadingDevices EXCEPT ![task.d] = FALSE]
    /\ UNCHANGED <<currentAccessToken, devices, isLoading, error, fetchers, lc>>
    /\ lastRefresh' = IF tasks[t].u.pc = "refresh"
                      THEN AlsoRefresh(kind, N) ELSE lastRefresh
    /\ UNCHANGED display

\* A request of the fetchUserDevices a polling task awaits is answered.  When
\* the call returns a list reporting the expected status: the success
\* message, the busy flag cleared, onRefresh() and the end of the loop.
\* When it returns another list or throws: attempts++ and the poll interval.
PollResponse(t, kind, payload) ==
    /\ tasks[t].phase = "poll"
    /\ kind \in (IF tasks[t].c.pc = "refresh" THEN IssueKinds ELSE Kinds)
    /\ LET task == tasks[t]
           s == FetchStep(task.c, tokens, kind, N)
           task1 == [task EXCEPT !.c = IF s.res = "none" THEN s.c ELSE PollCallOver(s.c),
                                 !.matched = (s.res = "ok" /\ payload[task.d] = task.exp)]
       IN
        CASE s.res = "none" ->
               /\ tasks' = [tasks EXCEPT ![t] = task1]
               /\ tokens' = s.tk
               /\ UNCHANGED <<isLoading, error, fetchers, loadingDevices>>
          [] s.res = "ok" /\ PollMatches(payload, task.d, task.exp) ->
               /\ FreeFetcher
               /\ LET r == RefreshDevicesStart(task.capTok, s.tk) IN
                   /\ tokens' = r.tk
                   /\ isLoading' = r.isLoading
                   /\ error' = r.error
                   /\ fetchers' = r.fetchers
               /\ loadingDevices' = [loadingDevices EXCEPT ![task.d] = FALSE]
               /\ tasks' = [tasks EXCEPT ![t] = PollOnMatch(task1)]
          [] OTHER ->
               /\ tasks' = [tasks EXCEPT ![t] =
                               IF s.res = "err" THEN PollOnError(task1)
                               ELSE PollOnMismatch(task1)]
               /\ tokens' = s.tk
               /\ UNCHANGED <<isLoading, error, fetchers, loadingDevices>>
    /\ UNCHANGED <<currentAccessToken, devices, lc, lastLogin>>
    /\ lastRefresh' = IF tasks[t].c.pc = "refresh"
                      THEN AlsoRefresh(kind, N) ELSE lastRefresh
    /\ UNCHANGED display

\* The poll interval of a task has elapsed: the loop condition, then the
\* next poll or the timeout message and the busy flag cleared.
PollTimer(t) ==
    /\ tasks[t].phase = "sleep"
    /\ IF LoopContinues(tasks[t].attempts)
       THEN LET p == PollIterate(tasks[t], tokens) IN
            /\ tasks' = [tasks EXCEPT ![t] = p.task]
            /\ tokens' = p.tk
            /\ UNCHANGED loadingDevices
       ELSE /\ tasks' = [tasks EXCEPT ![t] = PollOnTimeout(tasks[t])]
            /\ loadingDevices' = [loadingDevices EXCEPT ![tasks[t].d] = FALSE]
            /\ UNCHANGED tokens
    /\ UNCHANGED <<currentAccessToken, devices, isLoading, error, fetchers, lc, lastLogin>>
    /\ UNCHANGED <<lastRefresh, rejection, Status>>

\* ------------------------------------------------------------ specification
Next ==
    \/ \E cred \in Credentials : HandleLogin(cred)
    \/ \E kind \in Kinds : LoginResponse(kind)
    \/ HandleRefreshToken
    \/ \E kind \in Kinds : RefreshResponse(kind)
    \/ PullToRefresh
    \/ \E i \in Fetchers, kind \in Kinds : \E payload \in PayloadsOf(kind) :
          RefreshDevicesResponse(i, kind, payload)
    \/ \E d \in Devices : HandleUpdateStatus(d)
    \/ \E t \in Tasks, kind \in Kinds : UpdateResponse(t, kind)
    \/ \E t \in Tasks, kind \in Kinds : \E payload \in PayloadsOf(kind) :
          PollResponse(t, kind, payload)
    \/ \E t \in Tasks : PollTimer(t)

Spec == Init /\ [][Next]_vars

\* Every request is eventually answered (with a response or an error) and
\* every poll interval eventually elapses: the steps that resume a suspended
\* invocation are taken when they stay possible.
Fairness ==
    /\ WF_vars(\E kind \in Kinds : LoginResponse(kind))
    /\ WF_vars(\E kind \in Kinds : RefreshResponse(kind))
    /\ \A i \in Fetchers :
          WF_vars(\E kind \in Kinds : \E payload \in PayloadsOf(kind) :
                     RefreshDevicesResponse(i, kind, payload))
    /\ \A t \in Tasks :
          /\ WF_vars(\E kind \in Kinds : UpdateResponse(t, kind))
          /\ WF_vars(\E kind \in Kinds : \E payload \in PayloadsOf(kind) :
                         PollResponse(t, kind, payload))
          /\ WF_vars(PollTimer(t))

\* LoopSpec follows the toggles alone, from the moment the list is shown: the
\* user is logged in with access token Acc(1), the list shows some status for
\* every device, and the store is in one of the states the application
\* leaves it in by then.  The user presses toggle buttons and pulls to
\* refresh; requests are answered and poll intervals elapse.
LoopInit ==
    /\ tokens \in {NullTokens, Pair(1), OnlyAccess(Acc(1))}
    /\ currentAccessToken = Acc(1)
    /\ devices \in [Devices -> Statuses]
    /\ isLoading = FALSE
    /\ error = FALSE
    /\ fetchers = [i \in Fetchers |-> NoCall]
    /\ loadingDevices = [d \in Devices |-> FALSE]
    /\ tasks = [t \in Tasks |-> NoTask]
    /\ lc = [isLoading |-> FALSE, isRefreshing |-> FALSE, tok |-> Acc(1),
             bearer |-> Undef]
    /\ lastLogin = [stored |-> TRUE, ret |-> TRUE, cleared |-> TRUE]
    /\ lastRefresh = [stored |-> TRUE, ret |-> TRUE, cleared |-> TRUE]
    /\ rejection = NoRejection
    /\ Status = ""

LoopNext ==
    \/ PullToRefresh
    \/ \E i \in Fetchers, kind \in Kinds : \E payload \in PayloadsOf(kind) :
          RefreshDevicesResponse(i, kind, payload)
    \/ \E d \in Devices : HandleUpdateStatus(d)
    \/ \E t \in Tasks, kind \in Kinds : UpdateResponse(t, kind)
    \/ \E t \in Tasks, kind \in Kinds : \E payload \in PayloadsOf(kind) :
          PollResponse(t, kind, payload)
    \/ \E t \in Tasks : PollTimer(t)

LoopSpec == LoopInit /\ [][LoopNext]_vars /\ Fairness

\* ------------------------------------------- updateDeviceStatus called twice
\* updateDeviceStatus is exported: a caller other than the toggle button can
\* call it again before its first call is over.  Under ToggleSpec a caller
\* that has observed the statuses `devices`, and does not observe them
\* again, makes one call per entry of `tasks`, in order, each with the status
\* it observed; the store starts in one of the states the application
\* leaves it in.  tasks[t].u is the call and tasks[t].out its outcome.
ToggleInit ==
    /\ tokens \in {NullTokens, Pair(1), OnlyAccess(Acc(1))}
    /\ currentAccessToken = Empty
    /\ devices \in [Devices -> Statuses]
    /\ isLoading = FALSE
    /\ error = FALSE
    /\ fetchers = [i \in Fetchers |-> NoCall]
    /\ loadingDevices = [d \in Devices |-> FALSE]
    /\ tasks = [t \in Tasks |-> NoTask]
    /\ lc = [isLoading |-> FALSE, isRefreshing |-> FALSE, tok |-> Undef,
             bearer |-> Undef]
    /\ lastLogin = [stored |-> TRUE, ret |-> TRUE, cleared |-> TRUE]
    /\ lastRefresh = [stored |-> TRUE, ret |-> TRUE, cleared |-> TRUE]
    /\ rejection = NoRejection
    /\ Status = ""

\* The call has been made.
Called(t) == tasks[t].phase = "update" \/ tasks[t].out # "none"

\* The caller calls updateDeviceStatus(d, devices[d], cred): the call runs up
\* to its first await.
ToggleCall(t, d, cred) ==
    /\ ~Called(t)
    /\ \A s \in Tasks : s < t => Called(s)
    /\ LET s == UpdateStart(devices[d], cred, tokens) IN
        /\ tokens' = s.tk
        /\ tasks' = [tasks EXCEPT ![t] =
                        [NoTask EXCEPT !.phase = "update", !.d = d, !.u = s.u]]
    /\ UNCHANGED <<currentAccessToken, devices, isLoading, error, fetchers,
                   loadingDevices, lc, lastLogin>>
    /\ UNCHANGED <<lastRefresh, rejection, Status>>

\* A request of the call is answered; the call goes on to its next request,
\* returns or throws.
ToggleAnswer(t, kind) ==
    /\ tasks[t].phase = "update"
    /\ kind \in (IF tasks[t].u.pc \in {"login", "refresh"} THEN IssueKinds ELSE Kinds)
    /\ LET s == UpdateStep(tasks[t].u, tokens, kind, N)
           task1 == [tasks[t] EXCEPT !.u = s.u]
       IN
        /\ lastLogin' = IF tasks[t].u.pc = "login"
                        THEN AlsoLogin(kind, N) ELSE lastLogin
        /\ tokens' = s.tk
        /\ tasks' = [tasks EXCEPT ![t] =
                        CASE s.res = "none" -> task1
                          [] s.res = "ok" -> TaskOver(task1, "returned")
                          [] s.res = "err" -> TaskOver(task1, "failed")]
    /\ UNCHANGED <<currentAccessToken, devices, isLoading, error, fetchers,
                   loadingDevices, lc>>
    /\ lastRefresh' = IF tasks[t].u.pc = "refresh"
                      THEN AlsoRefresh(kind, N) ELSE lastRefresh
    /\ UNCHANGED display

ToggleNext ==
    \/ \E t \in Tasks, d \in Devices, cred \in {"blank", "typed"} : ToggleCall(t, d, cred)
    \/ \E t \in Tasks, kind \in Kinds : ToggleAnswer(t, kind)

ToggleSpec == ToggleInit /\ [][ToggleNext]_vars

\* ------------------------------------------------ the status text of a login
\* The substrings handleLogin looks for in the message of the error it
\* catches.  A message is modelled by the set of them it contains.
Words == {"401", "429", "network", "timeout", "locked"}
Messages == SUBSET Words

\* The errors axios can reject the login request with.
\*   response  the server answered; status is the HTTP status, hasData
\*             tells whether the body has a (non-empty) `message` and data
\*             is that message
\*   cause     without response: "network" (no connection) or "timeout"
\*   message   the message of the error object itself
ResponseErrors ==
    {e \in [response : {TRUE}, status : {401, 429, 500}, cause : {"none"},
            hasData : BOOLEAN, data : Messages, message : {{}}] :
        ~e.hasData => e.data = {}}
TransportErrors ==
    [response : {FALSE}, status : {0}, cause : {"network", "timeout"},
     hasData : {FALSE}, data : {{}}, message : Messages]
Rejections == ResponseErrors \cup TransportErrors

\* handleApiError: an error with a response becomes a new Error carrying the
\* message of the body, or 'API error occurred' (which contains none of
\* Words); any other error is returned as it is.
handleApiError(e) ==
    IF e.response
    THEN [response |-> FALSE, status |-> 0, cause |-> "none", hasData |-> FALSE,
          data |-> {}, message |-> IF e.hasData THEN e.data ELSE {}]
    ELSE e

\* The catch of handleLogin: the entry of ERROR_MESSAGES chosen from
\* error.message.
ErrorMessage(e) ==
    CASE "401" \in e.message -> "INVALID_CREDENTIALS"
      [] "429" \in e.message -> "RATE_LIMIT"
      [] "network" \in e.message -> "NETWORK_ERROR"
      [] "timeout" \in e.message -> "CONNECTION_TIMEOUT"
      [] "locked" \in e.message -> "ACCOUNT_LOCKED"
      [] OTHER -> "SERVER_ERROR"

\* The status texts the catch of handleLogin can set.
LoginErrorTexts ==
    {"INVALID_CREDENTIALS", "RATE_LIMIT", "NETWORK_ERROR", "CONNECTION_TIMEOUT",
     "ACCOUNT_LOCKED", "SERVER_ERROR"}

\* Under ClassifySpec the login request of every handleLogin is rejected, with
\* an error drawn at the start; the specification follows the status text.
ClassifyInit ==
    /\ tokens \in {NullTokens, Pair(1)}
    /\ currentAccessToken = Empty
    /\ devices = [d \in Devices |-> Absent]
    /\ isLoading = FALSE
    /\ error = FALSE
    /\ fetchers = [i \in Fetchers |-> NoCall]
    /\ loadingDevices = [d \in Devices |-> FALSE]
    /\ tasks = [t \in Tasks |-> NoTask]
    /\ lc = [isLoading |-> FALSE, isRefreshing |-> FALSE, tok |-> Undef,
             bearer |-> Undef]
    /\ lastLogin = [stored |-> TRUE, ret |-> TRUE, cleared |-> TRUE]
    /\ lastRefresh = [stored |-> TRUE, ret |-> TRUE, cleared |-> TRUE]
    /\ rejection \in Rejections
    /\ Status = ""

\* handleLogin up to its return or its first await: the two validations set
\* the status text and return; otherwise 'Logging in...' and the call of
\* login.
HandleLoginStatus(cred) ==
    /\ ~lc.isLoading
    /\ CASE cred = "empty" -> Status' = "EMPTY_FIELDS" /\ UNCHANGED lc
         [] cred = "noat" -> Status' = "INVALID_EMAIL" /\ UNCHANGED lc
         [] OTHER -> Status' = "Logging in..." /\ lc' = [lc EXCEPT !.isLoading = TRUE]
    /\ UNCHANGED <<tokens, currentAccessToken, devices, isLoading, error,
                   fetchers, loadingDevices, tasks, lastLogin, lastRefresh,
                   rejection>>

\* The login request is rejected: login sets `tokens` to null and throws
\* handleApiError(error); the catch of handleLogin sets the status text.
LoginRejected ==
    /\ lc.isLoading
    /\ tokens' = LoginDone("err", 0).tk
    /\ lastLogin' = AlsoLogin("err", 0)
    /\ Status' = ErrorMessage(handleApiError(rejection))
    /\ lc' = [lc EXCEPT !.isLoading = FALSE]
    /\ UNCHANGED <<currentAccessToken, devices, isLoading, error, fetchers,
                   loadingDevices, tasks, lastRefresh, rejection>>

ClassifyNext ==
    \/ \E cred \in Credentials : HandleLoginStatus(cred)
    \/ LoginRejected

ClassifySpec == ClassifyInit /\ [][ClassifyNext]_vars

\* ------------------------------------------------------------------ claims
\* Every invocation of fetchUserDevices the state holds: those of
\* App.refreshDevices and those of the polling loops.
Calls == {fetchers[i] : i \in Fetchers} \cup {tasks[t].c : t \in Tasks}

\* C1: in every reachable state the Session Store is either empty or holds
\* both an access token and a refresh token.
C1_NoPartialSession == tokens.null \/ (Truthy(tokens.a) /\ Truthy(tokens.r))

\* C2: when fetchUserDevices was called while the store held a refresh token
\* and its first GET is answered with 401, it performs one refresh; and when
\* that refresh succeeds it retries the GET once, bearing the access token
\* the refresh returned.
C2_RefreshOnceThenRetry ==
    [][\A i \in Fetchers :
          /\ (fetchers[i].pc = "get1" /\ fetchers[i].hadR /\ fetchers'[i].g1 = "401")
                => (fetchers'[i].pc = "refresh" /\ fetchers'[i].nRefresh = 1)
          /\ (fetchers[i].pc = "refresh" /\ fetchers'[i].res # "err")
                => (fetchers'[i].pc = "get2" /\ fetchers'[i].nGet = 2
                    /\ fetchers'[i].newTok)]_vars

\* C3: an invocation of fetchUserDevices never performs more than one refresh
\* nor more than two GETs; it returns only on a successful first GET or on a
\* GET retried after one refresh; and whenever it throws, `tokens` is null
\* at that moment.
C3_AtMostOneRefresh ==
    /\ \A c \in Calls :
          /\ c.nRefresh <= 1
          /\ c.nGet <= 2
          /\ c.res = "err" => c.endNull
    /\ \A i \in Fetchers :
          LET c == fetchers[i] IN
          /\ (c.pc = "idle" /\ c.g1 \in Failures /\ c.nGet = 1) => c.res = "err"
          /\ c.res = "ok" => \/ (c.g1 = "ok" /\ c.nGet = 1 /\ c.nRefresh = 0)
                             \/ (c.g1 = "401" /\ c.nGet = 2 /\ c.nRefresh = 1)

\* C3 witness: a refreshDevices whose GET, retried after a refresh, failed
\* too; the call threw and the store is empty.
C3_RetryFailed ==
    \E i \in Fetchers :
        /\ fetchers[i].res = "err"
        /\ fetchers[i].nGet = 2
        /\ fetchers[i].nRefresh = 1
        /\ tokens.null

\* C4: every successful login left in `tokens` the access and refresh token
\* of the server's payload and returned the payload's userId with the access
\* token it stored.
C4_LoginStoresPair == lastLogin.stored /\ lastLogin.ret

\* C4 witness: the login made by updateDeviceStatus has just succeeded: the
\* store holds the pair and the PUT bears its access token.
C4_LoggedIn ==
    \E t \in Tasks :
        /\ tasks[t].u.pc = "put1"
        /\ tasks[t].u.nLogin = 1
        /\ Truthy(tasks[t].u.bearer)
        /\ tokens = Pair(tasks[t].u.bearer.n)

\* C5: every failed login left `tokens` null and threw; the
\* updateDeviceStatus whose login failed issued no PUT, threw with the store
\* empty, and its task reported the failure.
C5_FailedLoginClears ==
    /\ lastLogin.cleared
    /\ \A t \in Tasks :
          (tasks[t].u.res = "err" /\ tasks[t].u.nLogin = 1 /\ tasks[t].u.nPut = 0)
              => (tasks[t].u.endNull /\ tasks[t].out = "failed")

\* C5 witness: the login made by updateDeviceStatus failed and the store is
\* empty.
C5_LoginFailed ==
    \E t \in Tasks :
        /\ tasks[t].u.res = "err"
        /\ tasks[t].u.nLogin = 1
        /\ tasks[t].u.nPut = 0
        /\ tokens.null

\* C6: updateDeviceStatus refreshes exactly when its first PUT is answered
\* with 401 while the store holds a refresh token, at most once; the retried
\* PUT is the second and last one and bears the access token the refresh
\* returned; a failure of the first PUT that is not such a 401, of the
\* refresh or of the retried PUT makes the call throw with the store empty,
\* and the task ends with the failure message and without polling.
C6_UpdateRetriesOnce ==
    \A t \in Tasks :
        LET u == tasks[t].u IN
        /\ u.nRefresh <= 1
        /\ u.nPut <= 2
        /\ (u.p1 = "401" /\ u.hadR) => u.nRefresh = 1
        /\ u.nRefresh = 1 => (u.p1 = "401" /\ u.hadR)
        /\ u.nPut = 2 => u.nRefresh = 1
        /\ u.pc = "put2" => (u.nPut = 2 /\ u.newTok /\ u.bearer.k = "A")
        /\ u.p1 = "err" => (u.res = "err" /\ u.nPut = 1 /\ u.nRefresh = 0)
        /\ u.res = "err" => /\ u.endNull
                            /\ tasks[t].phase = "idle"
                            /\ tasks[t].out = "failed"
                            /\ tasks[t].polls = 0

\* C6 witness: after a 401 and a refresh, the PUT is in flight a second time
\* bearing the new access token.
C6_RetryInFlight ==
    \E t \in Tasks :
        /\ tasks[t].u.pc = "put2"
        /\ tasks[t].u.p1 = "401"
        /\ tasks[t].u.newTok
        /\ tokens.a = tasks[t].u.bearer

\* C7: a poll whose list reports the expected status ends the loop at once
\* as CONFIRMED: it is the k-th poll after k-1 counted attempts, with exactly
\* one success message, no timeout message and no poll after it.
C7_ConfirmedOnMatch ==
    \A t \in Tasks :
        LET k == tasks[t] IN
        /\ k.nSuccess <= 1
        /\ k.matched => (k.out = "confirmed" /\ k.phase = "idle")
        /\ k.out = "confirmed" => /\ k.matched
                                  /\ k.phase = "idle"
                                  /\ k.polls \in 1..maxAttempts
                                  /\ k.attempts = k.polls - 1
                                  /\ k.nSuccess = 1
                                  /\ k.nTimeout = 0
                                  /\ k.nFailed = 0
        /\ k.nSuccess = 1 => k.out = "confirmed"

\* C7 witness: the loop confirmed on its 4th poll.
C7_ConfirmedOnFourth ==
    \E t \in Tasks : tasks[t].out = "confirmed" /\ tasks[t].polls = 4

\* C8: the loop never polls more than 10 times and gives the timeout message
\* at most once; it is TIMED_OUT only after exactly 10 polls and 10 counted
\* attempts, none of which reported the expected status, with exactly one
\* timeout message and no success message.
C8_TimeoutAfterTen ==
    \A t \in Tasks :
        LET k == tasks[t] IN
        /\ k.polls <= 10
        /\ k.nTimeout <= 1
        /\ k.out = "timedout" => /\ k.phase = "idle"
                                 /\ k.polls = 10
                                 /\ k.attempts = 10
                                 /\ ~k.matched
                                 /\ k.nTimeout = 1
                                 /\ k.nSuccess = 0
                                 /\ k.nFailed = 0
        /\ k.nTimeout = 1 => k.out = "timedout"

\* C8 witness: a loop timed out.
C8_TimedOut == \E t \in Tasks : tasks[t].out = "timedout" /\ tasks[t].nTimeout = 1

\* C9: a poll that threw leaves the loop running (waiting for the next poll,
\* or, later, timed out), having counted one attempt like any other poll,
\* and no message was given for it; the failure message is given only by a
\* task that never polled.
C9_PollErrorsSwallowed ==
    \A t \in Tasks :
        LET k == tasks[t] IN
        /\ k.c.res = "err" => /\ k.phase = "sleep" \/ (k.phase = "idle" /\ k.out = "timedout")
                              /\ k.nFailed = 0
                              /\ k.nSuccess = 0
        /\ k.phase = "sleep" => (k.attempts = k.polls /\ k.out = "none" /\ k.nTimeout = 0)
        /\ k.phase = "poll" => k.attempts = k.polls - 1
        /\ k.nFailed > 0 => (k.polls = 0 /\ k.out = "failed")
        /\ k.out \in {"none", "failed", "confirmed", "timedout"}

\* C9 witness: the third poll threw and the loop waits for the fourth.
C9_ErrorCounted ==
    \E t \in Tasks :
        /\ tasks[t].phase = "sleep"
        /\ tasks[t].c.res = "err"
        /\ tasks[t].attempts = 3

\* C10: no device has two running tasks (a toggle in flight or a loop
\* polling), and a device has one exactly when its busy flag is set.
C10_OnePendingPerDevice ==
    \A d \in Devices :
        /\ Cardinality({t \in Tasks : Active(t) /\ tasks[t].d = d}) <= 1
        /\ loadingDevices[d] <=> \E t \in Tasks : Active(t) /\ tasks[t].d = d

\* C10 witness: the list is shown with the device's button while a loop is
\* polling for that device, and one more invocation could start.
C10_BusyWhilePolling ==
    \E d \in Devices, t \in Tasks :
        /\ ListVisible
        /\ devices[d] # Absent
        /\ CanStart
        /\ tasks[t].d = d
        /\ tasks[t].phase \in {"poll", "sleep"}
        /\ loadingDevices[d]

\* C11: a press on the toggle button of a device makes updateDeviceStatus
\* choose the unblock endpoint exactly when the status the list shows for the
\* device (the currentStatus argument) is BLOCKED and the block endpoint for
\* every other status; its PUTs go to that endpoint; and the status the task
\* polls for afterwards is the target of that endpoint: UNBLOCKED for
\* unblock, BLOCKED for block.
C11_EndpointFromStatus ==
    [][\A t \in Tasks :
          /\ (tasks[t].phase = "idle" /\ tasks'[t].phase = "update") =>
                /\ tasks'[t].u.dir = "unblock" <=> devices[tasks'[t].d] = "BLOCKED"
                /\ tasks'[t].u.dir = "block" <=> devices[tasks'[t].d] # "BLOCKED"
          /\ tasks'[t].phase # "idle" =>
                /\ tasks'[t].exp = "UNBLOCKED" <=> tasks'[t].u.dir = "unblock"
                /\ tasks'[t].exp = "BLOCKED" <=> tasks'[t].u.dir = "block"
          /\ (tasks[t].phase # "idle" /\ tasks'[t].phase # "idle") =>
                /\ tasks'[t].u.dir = tasks[t].u.dir
                /\ tasks'[t].exp = tasks[t].exp]_vars

\* C11 witness: a task whose device was neither BLOCKED nor UNBLOCKED sent
\* its PUT to the block endpoint and is now polling for BLOCKED.
C11_PollingForBlocked ==
    \E t \in Tasks :
        /\ tasks[t].phase = "poll"
        /\ devices[tasks[t].d] = "OTHER"
        /\ tasks[t].u.dir = "block"
        /\ tasks[t].exp = "BLOCKED"

\* C20, as claimed: two calls of updateDeviceStatus for the same device, made
\* in quick succession with the status the caller observed before the first
\* and did not observe again, go to opposite endpoints.
C20_OppositeDirections ==
    \A s, t \in Tasks :
        (s # t /\ Called(s) /\ Called(t) /\ tasks[s].d = tasks[t].d)
            => tasks[s].u.dir # tasks[t].u.dir

\* C20, amended: such two calls go to the same endpoint, the one the observed
\* status determines: unblock when it is BLOCKED, block otherwise.
C20_SameDirection ==
    \A s, t \in Tasks :
        (s # t /\ Called(s) /\ Called(t) /\ tasks[s].d = tasks[t].d)
            => /\ tasks[s].u.dir = tasks[t].u.dir
               /\ tasks[s].u.dir = "unblock" <=> devices[tasks[s].d] = "BLOCKED"
               /\ tasks[s].u.dir = "block" <=> devices[tasks[s].d] # "BLOCKED"

\* C20 witness: the second call was made before the first PUT was answered;
\* two PUTs to the unblock endpoint are in flight for a device observed as
\* BLOCKED.
C20_TwoPutsInFlight ==
    \E s, t \in Tasks :
        /\ s # t
        /\ tasks[s].d = tasks[t].d
        /\ tasks[s].u.pc = "put1" /\ tasks[t].u.pc = "put1"
        /\ tasks[s].u.dir = "unblock" /\ tasks[t].u.dir = "unblock"
        /\ devices[tasks[s].d] = "BLOCKED"

\* C13: every request to the refresh endpoint in flight, whether made by
\* fetchUserDevices, by updateDeviceStatus or by the Refresh Token button,
\* bears a refresh token the server issued, never an access token.
C13_RefreshBearsRefreshToken ==
    /\ \A c \in Calls : c.pc = "refresh" => c.bearer.k = "R"
    /\ \A t \in Tasks : tasks[t].u.pc = "refresh" => tasks[t].u.bearer.k = "R"
    /\ lc.isRefreshing => lc.bearer.k = "R"

\* C14: every refreshTokens answered with success left in `tokens` the pair
\* of the server's payload and returned that same pair; every refreshTokens
\* answered with a failure left `tokens` null and threw.
C14_RefreshStoresPair ==
    lastRefresh.stored /\ lastRefresh.ret /\ lastRefresh.cleared

\* C14 witness: the refresh made by a refreshDevices after a 401 has just
\* succeeded: the store holds the new pair and the retried GET bears its
\* access token.
C14_Refreshed ==
    \E i \in Fetchers :
        /\ fetchers[i].pc = "get2"
        /\ fetchers[i].nRefresh = 1
        /\ fetchers[i].bearer.k = "A"
        /\ tokens = Pair(fetchers[i].bearer.n)

\* C15: when a fetchUserDevices or an updateDeviceStatus has thrown and the
\* store is empty, the application does not treat the user as logged in.
C15_ErrorLogsOut ==
    (/\ tokens.null
     /\ \/ \E c \in Calls : c.res = "err" /\ c.endNull
        \/ \E t \in Tasks : tasks[t].u.res = "err" /\ tasks[t].u.endNull)
        => ~isLoggedIn

\* C16: updateDeviceStatus called while `tokens` is null first calls login
\* with the credentials it was given (the toggle button gives blank ones) and
\* has issued no PUT while that login is in flight; called while `tokens` is
\* set it makes no login.  When the login fails the call throws without
\* having issued a PUT, `tokens` stays null and the task reports the failure;
\* when it succeeds the first PUT follows, bearing the new access token.
C16_LoginBeforePut ==
    [][\A t \in Tasks :
          /\ (tasks[t].phase = "idle" /\ tasks'[t].phase = "update") =>
                IF tokens.null
                THEN /\ tasks'[t].u.pc = "login"
                     /\ tasks'[t].u.cred = "blank"
                     /\ tasks'[t].u.nLogin = 1 /\ tasks'[t].u.nPut = 0
                     /\ tokens'.null
                ELSE /\ tasks'[t].u.pc = "put1"
                     /\ tasks'[t].u.nLogin = 0 /\ tasks'[t].u.nPut = 1
          /\ (tasks[t].u.pc = "login" /\ tasks'[t].u.pc # "login") =>
                \/ /\ tasks'[t].u.pc = "put1"
                   /\ tasks'[t].u.nPut = 1
                   /\ tasks'[t].u.bearer.k = "A"
                   /\ tokens' = Pair(tasks'[t].u.bearer.n)
                \/ /\ tasks'[t].u.res = "err"
                   /\ tasks'[t].u.nPut = 0
                   /\ tokens'.null
                   /\ tasks'[t].out = "failed"
                   /\ tasks'[t].polls = 0]_vars

\* C16 witness: the toggle button was pressed while the store was empty; the
\* login with the blank credentials is in flight and no PUT has been issued.
C16_LoginInFlight ==
    \E t \in Tasks :
        /\ tasks[t].phase = "update"
        /\ tasks[t].u.pc = "login"
        /\ tasks[t].u.cred = "blank"
        /\ tasks[t].u.nPut = 0
        /\ tokens.null

\* C17: the status text a rejected login leaves follows the shape of the
\* failure: invalid credentials for a 401 response, rate limit for a 429
\* response, network error for a failure without response, connection
\* timeout for a timeout, and server error for anything else.
C17_ClassifiedByShape ==
    Status \in LoginErrorTexts =>
        Status = CASE rejection.response /\ rejection.status = 401 -> "INVALID_CREDENTIALS"
                   [] rejection.response /\ rejection.status = 429 -> "RATE_LIMIT"
                   [] rejection.cause = "timeout" -> "CONNECTION_TIMEOUT"
                   [] ~rejection.response -> "NETWORK_ERROR"
                   [] OTHER -> "SERVER_ERROR"

\* C18: a task polls only after its updateDeviceStatus has returned: while
\* the call is in flight no poll has been made, and a task that polls or
\* has polled holds a call that returned and has given no failure message.
\* A task whose updateDeviceStatus threw never polled, gave exactly one
\* failure message and neither a success nor a timeout message.
C18_PollOnlyAfterReturn ==
    \A t \in Tasks :
        LET k == tasks[t] IN
        /\ k.phase = "update" => (k.polls = 0 /\ k.u.res = "none")
        /\ (k.phase \in {"poll", "sleep"} \/ k.polls > 0)
              => (k.u.res = "ok" /\ k.nFailed = 0)
        /\ k.u.res = "err" => /\ k.phase = "idle"
                              /\ k.out = "failed"
                              /\ k.polls = 0
                              /\ k.nFailed = 1
                              /\ k.nSuccess = 0
                              /\ k.nTimeout = 0
        /\ k.out = "failed" => k.u.res = "err"

\* C18 witness: the retried PUT of a toggle failed; the task is over with
\* its one failure message and without a poll.
C18_FailedWithoutPoll ==
    \E t \in Tasks :
        /\ tasks[t].out = "failed"
        /\ tasks[t].u.nPut = 2
        /\ tasks[t].nFailed = 1
        /\ tasks[t].polls = 0
        /\ ~loadingDevices[tasks[t].d]

\* C19: the step that ends a loop as confirmed gives the success message,
\* then clears the busy flag of the device, then calls onRefresh, which
\* starts exactly one refreshDevices; the step that ends a loop as timed out
\* gives the timeout message, clears the busy flag and starts no
\* refreshDevices.
C19_ConfirmedRefreshesOnce ==
    [][\A t \in Tasks :
          /\ (tasks[t].phase = "poll" /\ tasks'[t].phase = "idle") =>
                /\ tasks'[t].out = "confirmed"
                /\ tasks'[t].fx = <<"success", "busy", "refresh">>
                /\ tasks'[t].nSuccess = 1
                /\ ~loadingDevices'[tasks[t].d]
                /\ Cardinality({i \in Fetchers : fetchers[i].pc = "idle"
                                                   /\ fetchers'[i].pc = "get1"}) = 1
                /\ \A i \in Fetchers : fetchers[i].pc # "idle" => fetchers'[i] = fetchers[i]
          /\ (tasks[t].phase = "sleep" /\ tasks'[t].phase = "idle") =>
                /\ tasks'[t].out = "timedout"
                /\ tasks'[t].fx = <<"timeout", "busy">>
                /\ ~loadingDevices'[tasks[t].d]
                /\ fetchers' = fetchers]_vars

\* C19 witness: a loop has just been confirmed: its busy flag is cleared and
\* the refreshDevices it started awaits its GET.
C19_FinalRefreshInFlight ==
    \E t \in Tasks, i \in Fetchers :
        /\ tasks[t].out = "confirmed"
        /\ tasks[t].fx = <<"success", "busy", "refresh">>
        /\ ~loadingDevices[tasks[t].d]
        /\ fetchers[i].pc = "get1"
        /\ isLoading

\* C22: every GET of fetchUserDevices a polling loop has in flight, on the
\* first poll and on every later one, bears an access token the server
\* issued.
C22_PollBearsAccessToken ==
    \A t \in Tasks :
        (tasks[t].phase = "poll" /\ tasks[t].c.pc \in {"get1", "get2"})
            => tasks[t].c.bearer.k = "A"

\* C23: at the step in which a fetchUserDevices returns its list, to
\* App.refreshDevices or to a polling loop that goes on polling, `tokens`
\* holds the access token the answered GET of that call bore, whatever other
\* invocations did while the call was in flight.
C23_StoreKeptAcrossCall ==
    [][/\ \A i \in Fetchers :
             (fetchers[i].pc \in {"get1", "get2"} /\ fetchers'[i].res = "ok")
                 => (~tokens'.null /\ tokens'.a = fetchers[i].bearer)
       /\ \A t \in Tasks :
             (tasks[t].phase = "poll" /\ tasks[t].c.pc \in {"get1", "get2"}
              /\ tasks'[t].phase = "sleep" /\ tasks'[t].c.res = "ok")
                 => (~tokens'.null /\ tokens'.a = tasks[t].c.bearer)]_vars

\* C21: when every request is eventually answered and every poll interval
\* elapses, a busy flag that is set is eventually cleared again, whether the
\* toggle failed, was confirmed or timed out; and no loop polls more than
\* maxAttempts times.
C21_BusyEventuallyCleared ==
    /\ \A d \in Devices : loadingDevices[d] ~> ~loadingDevices[d]
    /\ [](\A t \in Tasks : tasks[t].polls <= maxAttempts)

\* C21 witness: a toggle set the busy flag of its device, its loop polled
\* maxAttempts times, failing at least the last time, and timed out; the
\* flag is cleared.
C21_ClearedAfterTimeout ==
    \E t \in Tasks :
        /\ tasks[t].out = "timedout"
        /\ tasks[t].polls = maxAttempts
        /\ tasks[t].c.res = "err"
        /\ ~loadingDevices[tasks[t].d]

====
